---------------------------- MODULE Spec2Model ----------------------------
(***************************************************************************)
(* Model of the Harmonic MCP server: the call-tool dispatcher, the         *)
(* process-wide credential slot and the HTTP client it drives, in the      *)
(* three variants the repository holds:                                    *)
(*   "main"   src/src/harmonic-server.js                                   *)
(*   "state"  src/src/server-with-state.js                                 *)
(*   "legacy" src/unnamed/part_000 (lines 51-346)                          *)
(* A handler runs atomically up to its first await (the fetch); the        *)
(* upstream's answer resumes it.  The SDK dispatches every request as it   *)
(* arrives, so a handler suspended on its fetch can be overtaken.          *)
(***************************************************************************)
EXTENDS Integers, Sequences, FiniteSets, TLC

(***************************************************************************)
(* JavaScript values carried in an argument bag.                           *)
(***************************************************************************)
Undefined == [t |-> "undefined", s |-> "", n |-> 0]
Null == [t |-> "null", s |-> "", n |-> 0]
Str(s) == [t |-> "string", s |-> s, n |-> 0]
Num(n) == [t |-> "number", s |-> "", n |-> n]

\* String(v), as template literals and URLSearchParams apply it
ToStr(v) ==
  CASE v.t = "string" -> v.s
    [] v.t = "number" -> ToString(v.n)
    [] v.t = "null" -> "null"
    [] OTHER -> "undefined"

\* ToBoolean(v), as `if (cursor)` and `!globalHarmonicClient` apply it
Truthy(v) ==
  CASE v.t = "string" -> v.s # ""
    [] v.t = "number" -> v.n # 0
    [] OTHER -> FALSE

(***************************************************************************)
(* Argument bags: request.params.arguments is either missing or an object. *)
(* A property that the object does not have reads as undefined.            *)
(***************************************************************************)
PropNames ==
  {"api_key", "query", "domain", "search_id", "company_id", "person_id",
   "size", "limit", "cursor"}

NoArgs == [present |-> FALSE, props |-> [p \in PropNames |-> Undefined]]
Bag(f) ==
  [present |-> TRUE,
   props |-> [p \in PropNames |-> IF p \in DOMAIN f THEN f[p] ELSE Undefined]]

\* const { p } = args
Prop(args, p) == args.props[p]
\* const { p = d } = args : the default replaces undefined only
PropOr(args, p, d) == IF args.props[p] = Undefined THEN d ELSE args.props[p]

(***************************************************************************)
(* Errors.  A plain JavaScript error has a name and a message; an McpError *)
(* has a code as well.                                                     *)
(***************************************************************************)
JsError(name, message) ==
  [type |-> "Error", name |-> name, code |-> "", message |-> message]
McpError(code, message) ==
  [type |-> "McpError", name |-> "McpError", code |-> code, message |-> message]

\* `${error}` : Error.prototype.toString
ErrorToString(e) == IF e.message = "" THEN e.name ELSE e.name \o ": " \o e.message
\* `${error.message || error}`
MessageOrError(e) == IF e.message # "" THEN e.message ELSE ErrorToString(e)

\* the TypeError of `const { p } = args` when args is undefined
DestructureError(p) ==
  JsError("TypeError",
          "Cannot destructure property '" \o p \o "' of 'args' as it is undefined.")

(***************************************************************************)
(* JSON values, response.json() and JSON.stringify(value, null, 2).        *)
(* An object is the sequence of its <<key, value>> members in insertion    *)
(* order.                                                                  *)
(***************************************************************************)
JNull == [t |-> "null", v |-> 0]
JBool(b) == [t |-> "boolean", v |-> b]
JNum(n) == [t |-> "number", v |-> n]
JStr(s) == [t |-> "string", v |-> s]
JArr(items) == [t |-> "array", v |-> items]
JObj(members) == [t |-> "object", v |-> members]

\* the character of s at position i, "" past the end
Ch(s, i) == IF i >= 1 /\ i <= Len(s) THEN SubSeq(s, i, i) ELSE ""

\* s.substring(i - 1, j), clipped to the string
Sub(s, i, j) ==
  IF i > Len(s) \/ j < i THEN ""
  ELSE SubSeq(s, i, IF j > Len(s) THEN Len(s) ELSE j)

Digits == {"0", "1", "2", "3", "4", "5", "6", "7", "8", "9"}
DigitVal(c) ==
  CASE c = "0" -> 0 [] c = "1" -> 1 [] c = "2" -> 2 [] c = "3" -> 3
    [] c = "4" -> 4 [] c = "5" -> 5 [] c = "6" -> 6 [] c = "7" -> 7
    [] c = "8" -> 8 [] OTHER -> 9

ParseFail == [ok |-> FALSE, val |-> JNull, pos |-> 0]
Parsed(val, pos) == [ok |-> TRUE, val |-> val, pos |-> pos]

RECURSIVE SkipWs(_, _)
SkipWs(s, i) == IF Ch(s, i) \in {" ", "\n", "\t", "\r"} THEN SkipWs(s, i + 1) ELSE i

RECURSIVE ParseDigits(_, _, _)
ParseDigits(s, i, acc) ==
  IF Ch(s, i) \in Digits
    THEN ParseDigits(s, i + 1, acc * 10 + DigitVal(Ch(s, i)))
    ELSE Parsed(JNum(acc), i)

\* the characters after an opening quote, up to the closing one; a run of
\* plain characters is taken in one step
RECURSIVE ParseChars(_, _, _)
ParseChars(s, i, acc) ==
  LET stops == {j \in i..Len(s) : Ch(s, j) \in {"\"", "\\", "\n", "\t", "\r"}} IN
  IF stops = {} THEN ParseFail
  ELSE LET j == CHOOSE x \in stops : \A y \in stops : x <= y
           run == acc \o Sub(s, i, j - 1)
           c == Ch(s, j)
       IN
       CASE c = "\"" -> Parsed(JStr(run), j + 1)
         [] c = "\\" ->
              LET e == Ch(s, j + 1) IN
              CASE e = "\"" -> ParseChars(s, j + 2, run \o "\"")
                [] e = "\\" -> ParseChars(s, j + 2, run \o "\\")
                [] e = "/" -> ParseChars(s, j + 2, run \o "/")
                [] e = "n" -> ParseChars(s, j + 2, run \o "\n")
                [] e = "t" -> ParseChars(s, j + 2, run \o "\t")
                [] OTHER -> ParseFail
         [] OTHER -> ParseFail

RECURSIVE ParseValue(_, _)
RECURSIVE ParseElements(_, _, _)
RECURSIVE ParseMembers(_, _, _)

ParseValue(s, i0) ==
  LET i == SkipWs(s, i0)
      c == Ch(s, i)
  IN
  CASE Sub(s, i, i + 3) = "null" -> Parsed(JNull, i + 4)
    [] Sub(s, i, i + 3) = "true" -> Parsed(JBool(TRUE), i + 4)
    [] Sub(s, i, i + 4) = "false" -> Parsed(JBool(FALSE), i + 5)
    [] c \in Digits ->
         IF c = "0" /\ Ch(s, i + 1) \in Digits THEN ParseFail
         ELSE ParseDigits(s, i, 0)
    [] c = "\"" -> ParseChars(s, i + 1, "")
    [] c = "[" ->
         IF Ch(s, SkipWs(s, i + 1)) = "]"
           THEN Parsed(JArr(<<>>), SkipWs(s, i + 1) + 1)
           ELSE ParseElements(s, i + 1, <<>>)
    [] c = "{" ->
         IF Ch(s, SkipWs(s, i + 1)) = "}"
           THEN Parsed(JObj(<<>>), SkipWs(s, i + 1) + 1)
           ELSE ParseMembers(s, i + 1, <<>>)
    [] OTHER -> ParseFail

ParseElements(s, i, acc) ==
  LET r == ParseValue(s, i) IN
  IF ~r.ok THEN ParseFail
  ELSE LET j == SkipWs(s, r.pos) IN
       CASE Ch(s, j) = "," -> ParseElements(s, j + 1, Append(acc, r.val))
         [] Ch(s, j) = "]" -> Parsed(JArr(Append(acc, r.val)), j + 1)
         [] OTHER -> ParseFail

\* a later member of the same key replaces the earlier one, in its place
PutMember(members, k, val) ==
  IF \E x \in 1..Len(members) : members[x][1] = k
    THEN [x \in 1..Len(members) |->
            IF members[x][1] = k THEN <<k, val>> ELSE members[x]]
    ELSE Append(members, <<k, val>>)

ParseMembers(s, i0, acc) ==
  LET i == SkipWs(s, i0) IN
  IF Ch(s, i) # "\"" THEN ParseFail
  ELSE LET k == ParseChars(s, i + 1, "") IN
       IF ~k.ok THEN ParseFail
       ELSE LET c == SkipWs(s, k.pos) IN
            IF Ch(s, c) # ":" THEN ParseFail
            ELSE LET r == ParseValue(s, c + 1) IN
                 IF ~r.ok THEN ParseFail
                 ELSE LET j == SkipWs(s, r.pos) IN
                      CASE Ch(s, j) = "," ->
                             ParseMembers(s, j + 1, PutMember(acc, k.val.v, r.val))
                        [] Ch(s, j) = "}" ->
                             Parsed(JObj(PutMember(acc, k.val.v, r.val)), j + 1)
                        [] OTHER -> ParseFail

\* JSON.parse(text): the whole text must be one value
JsonParse(text) ==
  LET r == ParseValue(text, 1) IN
  IF r.ok /\ SkipWs(text, r.pos) = Len(text) + 1 THEN r ELSE ParseFail

\* QuoteJSONString
RECURSIVE QuoteChars(_, _)
QuoteChars(s, i) ==
  LET stops == {j \in i..Len(s) : Ch(s, j) \in {"\"", "\\", "\n", "\t"}} IN
  IF stops = {} THEN Sub(s, i, Len(s))
  ELSE LET j == CHOOSE x \in stops : \A y \in stops : x <= y
           c == Ch(s, j)
       IN Sub(s, i, j - 1)
            \o (CASE c = "\"" -> "\\\""
                  [] c = "\\" -> "\\\\"
                  [] c = "\n" -> "\\n"
                  [] OTHER -> "\\t")
            \o QuoteChars(s, j + 1)

Quote(s) == "\"" \o QuoteChars(s, 1) \o "\""

RECURSIVE Spaces(_)
Spaces(n) == IF n <= 0 THEN "" ELSE " " \o Spaces(n - 1)

\* SerializeJSONProperty with gap of `gap` spaces, at indentation `indent`
RECURSIVE Serialize(_, _, _)
RECURSIVE SerializeItems(_, _, _, _)
RECURSIVE SerializeMembers(_, _, _, _)

Serialize(val, gap, indent) ==
  LET inner == indent + gap
      open == IF gap = 0 THEN "" ELSE "\n" \o Spaces(inner)
      close == IF gap = 0 THEN "" ELSE "\n" \o Spaces(indent)
  IN
  CASE val.t = "null" -> "null"
    [] val.t = "boolean" -> (IF val.v THEN "true" ELSE "false")
    [] val.t = "number" -> ToString(val.v)
    [] val.t = "string" -> Quote(val.v)
    [] val.t = "array" ->
         IF val.v = <<>> THEN "[]"
         ELSE "[" \o open \o SerializeItems(val.v, 1, gap, inner) \o close \o "]"
    [] OTHER ->
         IF val.v = <<>> THEN "{}"
         ELSE "{" \o open \o SerializeMembers(val.v, 1, gap, inner) \o close \o "}"

SerializeItems(items, i, gap, indent) ==
  LET sep == IF gap = 0 THEN "," ELSE ",\n" \o Spaces(indent) IN
  Serialize(items[i], gap, indent)
    \o (IF i = Len(items) THEN ""
        ELSE sep \o SerializeItems(items, i + 1, gap, indent))

SerializeMembers(members, i, gap, indent) ==
  LET sep == IF gap = 0 THEN "," ELSE ",\n" \o Spaces(indent)
      colon == IF gap = 0 THEN ":" ELSE ": "
  IN
  Quote(members[i][1]) \o colon \o Serialize(members[i][2], gap, indent)
    \o (IF i = Len(members) THEN ""
        ELSE sep \o SerializeMembers(members, i + 1, gap, indent))

\* JSON.stringify(value, null, 2)
\* JSON.stringify(value)
JsonStringify_Compact(val) == Serialize(val, 0, 0)

JsonStringify(val) == Serialize(val, 2, 0)

(***************************************************************************)
(* Percent-encoding: encodeURIComponent and the serializer of              *)
(* URLSearchParams (application/x-www-form-urlencoded).                    *)
(***************************************************************************)
AlphaNum ==
  {"a", "b", "c", "d", "e", "f", "g", "h", "i", "j", "k", "l", "m", "n", "o",
   "p", "q", "r", "s", "t", "u", "v", "w", "x", "y", "z",
   "A", "B", "C", "D", "E", "F", "G", "H", "I", "J", "K", "L", "M", "N", "O",
   "P", "Q", "R", "S", "T", "U", "V", "W", "X", "Y", "Z"} \cup Digits

\* %XX of an ASCII character that is not alphanumeric
PctHex(c) ==
  CASE c = " " -> "%20" [] c = "!" -> "%21" [] c = "\"" -> "%22"
    [] c = "#" -> "%23" [] c = "$" -> "%24" [] c = "%" -> "%25"
    [] c = "&" -> "%26" [] c = "'" -> "%27" [] c = "(" -> "%28"
    [] c = ")" -> "%29" [] c = "*" -> "%2A" [] c = "+" -> "%2B"
    [] c = "," -> "%2C" [] c = "-" -> "%2D" [] c = "." -> "%2E"
    [] c = "/" -> "%2F" [] c = ":" -> "%3A" [] c = ";" -> "%3B"
    [] c = "<" -> "%3C" [] c = "=" -> "%3D" [] c = ">" -> "%3E"
    [] c = "?" -> "%3F" [] c = "@" -> "%40" [] c = "[" -> "%5B"
    [] c = "\\" -> "%5C" [] c = "]" -> "%5D" [] c = "^" -> "%5E"
    [] c = "_" -> "%5F" [] c = "{" -> "%7B"
    [] c = "|" -> "%7C" [] c = "}" -> "%7D" [] c = "~" -> "%7E"
    [] c = "\n" -> "%0A" [] c = "\t" -> "%09" [] c = "\r" -> "%0D"

UriUnreserved == AlphaNum \cup {"-", "_", ".", "!", "~", "*", "'", "(", ")"}
FormUnreserved == AlphaNum \cup {"*", "-", ".", "_"}

RECURSIVE EncodeFrom(_, _)
EncodeFrom(s, i) ==
  IF i > Len(s) THEN ""
  ELSE (IF Ch(s, i) \in UriUnreserved THEN Ch(s, i) ELSE PctHex(Ch(s, i)))
         \o EncodeFrom(s, i + 1)
\* encodeURIComponent(s)
EncodeURIComponent(s) == EncodeFrom(s, 1)

RECURSIVE FormEncodeFrom(_, _)
FormEncodeFrom(s, i) ==
  IF i > Len(s) THEN ""
  ELSE (CASE Ch(s, i) \in FormUnreserved -> Ch(s, i)
          [] Ch(s, i) = " " -> "+"
          [] OTHER -> PctHex(Ch(s, i)))
         \o FormEncodeFrom(s, i + 1)
FormEncode(s) == FormEncodeFrom(s, 1)

\* URLSearchParams.prototype.toString over <<name, value>> pairs of JS values
RECURSIVE FormSerializeFrom(_, _)
FormSerializeFrom(pairs, i) ==
  IF i > Len(pairs) THEN ""
  ELSE FormEncode(pairs[i][1]) \o "=" \o FormEncode(ToStr(pairs[i][2]))
         \o (IF i = Len(pairs) THEN "" ELSE "&" \o FormSerializeFrom(pairs, i + 1))
FormSerialize(pairs) == FormSerializeFrom(pairs, 1)

(***************************************************************************)
(* The credential slot and the HTTP client.                                *)
(***************************************************************************)
Variants == {"main", "state", "legacy"}

HARMONIC_API_BASE(v) ==
  IF v = "state" THEN "https://api.harmonic.ai/v1" ELSE "https://api.harmonic.ai"

\* let globalHarmonicClient = null
NoClient == [set |-> FALSE, apiKey |-> Undefined]
Client(apiKey) == [set |-> TRUE, apiKey |-> apiKey]

\* new HarmonicClient({ apiKey }): main and state log apiKey.substring(0, 8),
\* which throws when apiKey is not a string; legacy stores whatever it gets
NewHarmonicClient(v, apiKey) ==
  CASE v = "legacy" \/ apiKey.t = "string" ->
         [ok |-> TRUE, client |-> Client(apiKey), error |-> JsError("", "")]
    [] apiKey.t = "number" ->
         [ok |-> FALSE, client |-> NoClient,
          error |-> JsError("TypeError", "this.apiKey.substring is not a function")]
    [] OTHER ->
         [ok |-> FALSE, client |-> NoClient,
          error |-> JsError("TypeError",
                     "Cannot read properties of " \o apiKey.t
                       \o " (reading 'substring')")]

\* the url and the options handed to fetch.  options is built as
\* {method, headers}: harmonic-server.js never adds a body, and in the other
\* two files no caller passes makeRequest its third argument, so that
\* `if (body && method !== 'GET')` never assigns one
Req(method, url, headers) ==
  [method |-> method, url |-> url, headers |-> headers, body |-> Undefined]

\* makeRequest up to its await fetch(url, options): the request it sends
MakeRequest(v, client, endpoint, method, queryParams) ==
  CASE v = "main" ->
         Req(method,
             HARMONIC_API_BASE(v) \o endpoint \o "?"
               \o FormSerialize(PutMember(queryParams, "apikey", client.apiKey)),
             << <<"accept", "application/json">>,
                <<"Content-Type", "application/json">> >>)
    [] v = "state" ->
         Req(method, HARMONIC_API_BASE(v) \o endpoint,
             << <<"apikey", ToStr(client.apiKey)>>,
                <<"Content-Type", "application/json">>,
                <<"website_domain", "harmonic.ai">> >>)
    [] OTHER ->
         Req(method, HARMONIC_API_BASE(v) \o endpoint,
             << <<"Authorization", "Bearer " \o ToStr(client.apiKey)>>,
                <<"Content-Type", "application/json">> >>)

(***************************************************************************)
(* What the upstream can answer to one fetch.                              *)
(***************************************************************************)
HttpResponse(status, text) == [kind |-> "response", status |-> status, text |-> text]
FetchRejects(message) == [kind |-> "reject", status |-> 0, text |-> message]

\* response.ok
ResponseOk(r) == r.status >= 200 /\ r.status <= 299

Resolved(data) == [ok |-> TRUE, data |-> data, error |-> JsError("", "")]
Rejected(error) == [ok |-> FALSE, data |-> JNull, error |-> error]

\* the error thrown inside makeRequest's try block, before the catch rewraps it
\* a client that reports every failure alike
InnerError_Opaque(v, r) == JsError("Error", "request failed")

InnerError(v, r) ==
  CASE r.kind = "reject" -> JsError("TypeError", r.text)
    [] ~ResponseOk(r) /\ v # "legacy" /\ r.status = 403 ->
         JsError("Error",
                 "Authentication failed (403). Please check your API key. Response: "
                   \o r.text)
    [] ~ResponseOk(r) /\ v # "legacy" /\ r.status = 401 ->
         JsError("Error",
                 "Unauthorized (401). API key may be invalid or expired. Response: "
                   \o r.text)
    [] ~ResponseOk(r) ->
         JsError("Error",
                 "Harmonic API error: " \o ToString(r.status) \o " - " \o r.text)
    [] OTHER -> JsError("SyntaxError", "Unexpected token in JSON at position 0")

\* makeRequest's catch: every failure of the try block is thrown again as a
\* new Error; legacy interpolates the error itself, the others its message
RewrapError(v, e) ==
  JsError("Error",
          "Failed to make Harmonic API request: "
            \o (IF v = "legacy" THEN ErrorToString(e) ELSE MessageOrError(e)))

\* makeRequest from the moment fetch settles
SettleRequest(v, r) ==
  IF r.kind = "response" /\ ResponseOk(r) /\ JsonParse(r.text).ok
    THEN Resolved(JsonParse(r.text).val)
    ELSE Rejected(RewrapError(v, InnerError(v, r)))

(***************************************************************************)
(* The tool catalog of each variant (the ListTools handler): the names in  *)
(* order, and each tool's `required` array.                                *)
(***************************************************************************)
ToolNames(v) ==
  CASE v = "main" ->
         <<"harmonic_set_api_key", "harmonic_search_company_by_domain",
           "harmonic_search_companies", "harmonic_search_people",
           "harmonic_get_saved_search_results", "harmonic_get_company_employees">>
    [] v = "state" ->
         <<"harmonic_search_companies", "harmonic_get_company",
           "harmonic_search_people", "harmonic_get_person",
           "harmonic_set_api_key", "harmonic_test_connection">>
    [] OTHER ->
         <<"harmonic_search_companies", "harmonic_get_company",
           "harmonic_search_people", "harmonic_get_person",
           "harmonic_set_api_key">>

\* inputSchema.required of the catalog entry
RequiredOf(name) ==
  CASE name = "harmonic_set_api_key" -> <<"api_key">>
    [] name \in {"harmonic_search_company_by_domain", "harmonic_get_company"} ->
         <<"domain">>
    [] name \in {"harmonic_search_companies", "harmonic_search_people"} ->
         <<"query">>
    [] name = "harmonic_get_saved_search_results" -> <<"search_id">>
    [] name = "harmonic_get_company_employees" -> <<"company_id">>
    [] name = "harmonic_get_person" -> <<"person_id">>
    [] OTHER -> <<>>

Range(seq) == {seq[i] : i \in 1..Len(seq)}
Catalog(v) == Range(ToolNames(v))

\* the ListTools handler's result
ListTools(v) ==
  [i \in 1..Len(ToolNames(v)) |->
     [name |-> ToolNames(v)[i], required |-> RequiredOf(ToolNames(v)[i])]]

(***************************************************************************)
(* The CallTool handler, up to its first await.  A step of a handler is a  *)
(* return, a throw, or a fetch it suspends on; `client` is the credential  *)
(* slot as the step leaves it.                                             *)
(***************************************************************************)
NoReq == Req("", "", <<>>)
NoError == JsError("", "")

Return(content, client) ==
  [kind |-> "return", content |-> content, error |-> NoError, req |-> NoReq,
   client |-> client, results |-> <<>>]
Throw(error, client) ==
  [kind |-> "throw", content |-> <<>>, error |-> error, req |-> NoReq,
   client |-> client, results |-> <<>>]
Await(req, client) ==
  [kind |-> "await", content |-> <<>>, error |-> NoError, req |-> req,
   client |-> client, results |-> <<>>]
\* the probe suspended inside its loop, with the records pushed so far
AwaitInLoop(req, client, results) ==
  [kind |-> "await", content |-> <<>>, error |-> NoError, req |-> req,
   client |-> client, results |-> results]

TextResult(text) == << [type |-> "text", text |-> text] >>

NotSetError ==
  McpError("InvalidRequest",
           "Harmonic API key not set. Please use harmonic_set_api_key first.")

SetKeyMessage(v) ==
  IF v = "legacy" THEN "Harmonic API key has been set successfully."
  ELSE "Harmonic API key has been set successfully. You can now use the other Harmonic tools."

\* a case that lost its guard
CredentialGuard_Missing(client) == FALSE

\* if (!globalHarmonicClient)
CredentialGuard(client) == ~client.set

\* case "harmonic_set_api_key"
\* a failed construction that also drops the client already held
SetApiKeyCase_ClearsOnFailure(v, client, args) ==
  IF ~args.present THEN Throw(DestructureError("api_key"), NoClient)
  ELSE LET c == NewHarmonicClient(v, Prop(args, "api_key")) IN
       IF c.ok THEN Return(TextResult(SetKeyMessage(v)), c.client)
       ELSE Throw(c.error, NoClient)

\* a case that would assign the slot before the constructor checks the key
SetApiKeyCase_StoresFirst(v, client, args) ==
  IF ~args.present THEN Throw(DestructureError("api_key"), client)
  ELSE LET c == NewHarmonicClient(v, Prop(args, "api_key")) IN
       IF c.ok THEN Return(TextResult(SetKeyMessage(v)), c.client)
       ELSE Throw(c.error, Client(Prop(args, "api_key")))

SetApiKeyCase(v, client, args) ==
  IF ~args.present THEN Throw(DestructureError("api_key"), client)
  ELSE LET c == NewHarmonicClient(v, Prop(args, "api_key")) IN
       IF c.ok THEN Return(TextResult(SetKeyMessage(v)), c.client)
       ELSE Throw(c.error, client)

\* the size argument's default, `size = 50`
DefaultSize == 50
\* the limit argument's default, `limit = 10`
DefaultLimit == 10

\* const params = { ..., size }; if (cursor) params.cursor = cursor;
ListParams(first, size, cursor) ==
  first \o << <<"size", size>> >>
    \o (IF Truthy(cursor) THEN << <<"cursor", cursor>> >> ELSE <<>>)

\* the first property each case destructures from args
FirstProp(name) ==
  CASE name \in {"harmonic_search_company_by_domain", "harmonic_get_company"} ->
         "domain"
    [] name \in {"harmonic_search_companies", "harmonic_search_people"} -> "query"
    [] name = "harmonic_get_saved_search_results" -> "search_id"
    [] name = "harmonic_get_company_employees" -> "company_id"
    [] OTHER -> "person_id"

\* harmonic-server.js: the client method each case calls, as its request
MainRequest(client, name, args) ==
  LET size == PropOr(args, "size", Num(DefaultSize))
      cursor == Prop(args, "cursor")
  IN
  CASE name = "harmonic_search_company_by_domain" ->
         MakeRequest("main", client, "/companies", "POST",
                     << <<"website_domain", Prop(args, "domain")>> >>)
    [] name = "harmonic_search_companies" ->
         MakeRequest("main", client, "/companies", "GET",
                     ListParams(<< <<"q", Prop(args, "query")>> >>, size, cursor))
    [] name = "harmonic_search_people" ->
         MakeRequest("main", client, "/people", "GET",
                     ListParams(<< <<"q", Prop(args, "query")>> >>, size, cursor))
    [] name = "harmonic_get_saved_search_results" ->
         MakeRequest("main", client,
                     "/saved_searches:results/" \o ToStr(Prop(args, "search_id")),
                     "GET", ListParams(<<>>, size, cursor))
    [] OTHER ->
         MakeRequest("main", client,
                     "/companies/" \o ToStr(Prop(args, "company_id")) \o "/employees",
                     "GET", ListParams(<<>>, size, cursor))

\* server-with-state.js and the legacy server: the same four client methods
PathRequest(v, client, name, args) ==
  LET limit == ToStr(PropOr(args, "limit", Num(DefaultLimit))) IN
  CASE name = "harmonic_search_companies" ->
         MakeRequest(v, client,
                     "/companies?q=" \o EncodeURIComponent(ToStr(Prop(args, "query")))
                       \o "&limit=" \o limit,
                     "GET", <<>>)
    [] name = "harmonic_get_company" ->
         MakeRequest(v, client,
                     "/companies/" \o EncodeURIComponent(ToStr(Prop(args, "domain"))),
                     "GET", <<>>)
    [] name = "harmonic_search_people" ->
         MakeRequest(v, client,
                     "/people?q=" \o EncodeURIComponent(ToStr(Prop(args, "query")))
                       \o "&limit=" \o limit,
                     "GET", <<>>)
    [] OTHER ->
         MakeRequest(v, client,
                     "/people/" \o EncodeURIComponent(ToStr(Prop(args, "person_id"))),
                     "GET", <<>>)

\* a switch that would lack the case of the last tool of each catalog
SwitchCases_LastMissing(v) ==
  CASE v = "main" ->
         {"harmonic_set_api_key", "harmonic_search_company_by_domain",
          "harmonic_search_companies", "harmonic_search_people",
          "harmonic_get_saved_search_results"}
    [] v = "state" ->
         {"harmonic_set_api_key", "harmonic_search_companies",
          "harmonic_get_company", "harmonic_search_people", "harmonic_get_person"}
    [] OTHER ->
         {"harmonic_search_companies", "harmonic_get_company",
          "harmonic_search_people", "harmonic_get_person"}

\* the case labels of the handler's switch
SwitchCases(v) ==
  CASE v = "main" ->
         {"harmonic_set_api_key", "harmonic_search_company_by_domain",
          "harmonic_search_companies", "harmonic_search_people",
          "harmonic_get_saved_search_results", "harmonic_get_company_employees"}
    [] v = "state" ->
         {"harmonic_set_api_key", "harmonic_search_companies",
          "harmonic_get_company", "harmonic_search_people", "harmonic_get_person",
          "harmonic_test_connection"}
    [] OTHER ->
         {"harmonic_set_api_key", "harmonic_search_companies",
          "harmonic_get_company", "harmonic_search_people", "harmonic_get_person"}

\* the cases that call one client method and wrap its result
ResourceTools(v) ==
  SwitchCases(v) \ {"harmonic_set_api_key", "harmonic_test_connection"}

\* a resource tool's case: the guard, the destructuring, the client call
\* a case that drops the client when it cannot read its arguments
ResourceCase_Resets(v, client, name, args) ==
  IF CredentialGuard(client) THEN Throw(NotSetError, client)
  ELSE IF ~args.present THEN Throw(DestructureError(FirstProp(name)), NoClient)
  ELSE Await(IF v = "main" THEN MainRequest(client, name, args)
             ELSE PathRequest(v, client, name, args),
             NoClient)

ResourceCase(v, client, name, args) ==
  IF CredentialGuard(client) THEN Throw(NotSetError, client)
  ELSE IF ~args.present THEN Throw(DestructureError(FirstProp(name)), client)
  ELSE Await(IF v = "main" THEN MainRequest(client, name, args)
             ELSE PathRequest(v, client, name, args),
             client)

\* const testEndpoints = [...]
testEndpoints ==
  <<"/companies?q=google&limit=1", "/company?q=google&limit=1",
    "/search/companies?q=google&limit=1", "/", "/api/v1/companies?q=google&limit=1">>

\* case "harmonic_test_connection", up to the first fetch of its loop
TestConnectionCase(v, client) ==
  IF CredentialGuard(client) THEN Throw(NotSetError, client)
  ELSE Await(MakeRequest(v, client, testEndpoints[1], "GET", <<>>), client)

\* default: throw new McpError(ErrorCode.MethodNotFound, `Unknown tool: ${name}`)
UnknownTool_Anonymous(name) == McpError("MethodNotFound", "Unknown tool")

UnknownTool(name) == McpError("MethodNotFound", "Unknown tool: " \o name)

\* the switch of the CallTool handler
Switch(v, client, name, args) ==
  CASE name \notin SwitchCases(v) -> Throw(UnknownTool(name), client)
    [] name = "harmonic_set_api_key" -> SetApiKeyCase(v, client, args)
    [] name = "harmonic_test_connection" -> TestConnectionCase(v, client)
    [] OTHER -> ResourceCase(v, client, name, args)

\* the handler's catch: an McpError passes, anything else becomes InternalError
\* a handler without the catch
CatchWrap_Rethrows(v, e) == e

\* a catch that reports whatever it wraps as an invalid request
CatchWrap_InvalidRequest(v, e) ==
  IF e.type = "McpError" THEN e
  ELSE McpError("InvalidRequest", "Tool execution failed: " \o MessageOrError(e))

CatchWrap(v, e) ==
  IF e.type = "McpError" THEN e
  ELSE McpError("InternalError",
                "Tool execution failed: "
                  \o (IF v = "legacy" THEN ErrorToString(e) ELSE MessageOrError(e)))

(***************************************************************************)
(* The handler from the moment its fetch settles.                          *)
(***************************************************************************)
\* the answers tried on the probe's paths: each path succeeds or fails, the
\* odd ones by a status and the even ones in transport
ProbeAnswers(idx) ==
  {HttpResponse(200, "[]"),
   IF idx % 2 = 1 THEN HttpResponse(404, "Not Found")
   ELSE FetchRejects("fetch failed")}

\* results.push({ endpoint, status, response }) or ({ endpoint, status, error })
ProbeRecord(endpoint, settled) ==
  IF settled.ok
    THEN JObj(<< <<"endpoint", JStr(endpoint)>>, <<"status", JStr("success")>>,
                 <<"response", settled.data>> >>)
    ELSE JObj(<< <<"endpoint", JStr(endpoint)>>, <<"status", JStr("failed")>>,
                 <<"error", JStr(settled.error.message)>> >>)

\* the arrays the probe of server-with-state.js can hold after k paths
RECURSIVE ProbeRuns(_)
ProbeRuns(k) ==
  IF k = 0 THEN {<<>>}
  ELSE {Append(r, ProbeRecord(testEndpoints[k], SettleRequest("state", a))) :
          r \in ProbeRuns(k - 1), a \in ProbeAnswers(k)}

\* JSON.stringify of the arrays the probe can end with, computed once
Serialized ==
  [val \in {JArr(r) : r \in ProbeRuns(Len(testEndpoints))} |-> JsonStringify(val)]
Stringify(val) ==
  IF val \in DOMAIN Serialized THEN Serialized[val] ELSE JsonStringify(val)

\* a resource tool's case after `await`: the result block, or the throw
\* a client that tries once more when the call failed
ResourceResume_Retries(v, client, settled) ==
  IF settled.ok THEN Return(TextResult(JsonStringify(settled.data)), client)
  ELSE Await(MakeRequest(v, client, "/companies", "GET", <<>>), client)

ResourceResume(v, client, settled) ==
  IF settled.ok THEN Return(TextResult(JsonStringify(settled.data)), client)
  ELSE Throw(settled.error, client)

\* one turn of the probe's loop after `await`: record, then next path or return
\* a probe that gives up at the first path that fails
ProbeResume_Aborts(v, client, idx, results, settled) ==
  LET all == Append(results, ProbeRecord(testEndpoints[idx], settled)) IN
  IF ~settled.ok THEN Throw(settled.error, client)
  ELSE IF idx < Len(testEndpoints)
    THEN AwaitInLoop(MakeRequest(v, client, testEndpoints[idx + 1], "GET", <<>>),
                     client, all)
    ELSE Return(TextResult("Connection test results:\n" \o Stringify(JArr(all))),
                client)

ProbeResume(v, client, idx, results, settled) ==
  LET all == Append(results, ProbeRecord(testEndpoints[idx], settled)) IN
  IF idx < Len(testEndpoints)
    THEN AwaitInLoop(MakeRequest(v, client, testEndpoints[idx + 1], "GET", <<>>),
                     client, all)
    ELSE Return(TextResult("Connection test results:\n" \o Stringify(JArr(all))),
                client)

(***************************************************************************)
(* The diagnostic lines the servers write to stderr (console.error).  The  *)
(* legacy server writes none while it handles a request.                   *)
(***************************************************************************)
\* constructor: `[DEBUG] API key set: ${this.apiKey.substring(0, 8)}...`,
\* which throws before it prints when the key is not a string
ConstructorLog(v, apiKey) ==
  IF v # "legacy" /\ apiKey.t = "string"
    THEN <<"[DEBUG] API key set: " \o Sub(apiKey.s, 1, 8) \o "...">>
    ELSE <<>>

\* the headers object of a request, for JSON.stringify
HeadersObject(req) ==
  JObj([i \in 1..Len(req.headers) |-> <<req.headers[i][1], JStr(req.headers[i][2])>>])

\* makeRequest before the fetch
MakeRequestLog(v, req) ==
  CASE v = "main" ->
         <<"[DEBUG] Making " \o req.method \o " request to: " \o req.url>>
    [] v = "state" ->
         <<"[DEBUG] Making request to: " \o req.url,
           "[DEBUG] Headers: " \o JsonStringify(HeadersObject(req))>>
    [] OTHER -> <<>>

\* makeRequest after the fetch
SettleLog(v, r) ==
  IF v = "legacy" THEN <<>>
  ELSE IF r.kind = "response" /\ ResponseOk(r) /\ JsonParse(r.text).ok
    THEN <<"[DEBUG] API call successful">>
  ELSE (IF r.kind = "response" /\ ~ResponseOk(r)
          THEN <<"[DEBUG] API Response: " \o ToString(r.status) \o " - " \o r.text>>
          ELSE <<>>)
         \o <<"[DEBUG] API call failed: " \o InnerError(v, r).message>>

\* the handler's first lines
EntryLog(v, client, name) ==
  IF v = "legacy" THEN <<>>
  ELSE <<"[DEBUG] Tool called: " \o name,
         "[DEBUG] Current client state: " \o (IF client.set THEN "SET" ELSE "NOT SET")>>

\* the handler's catch: console.error(`[DEBUG] Tool execution error:`, error)
CatchLog(v, e) ==
  IF v = "legacy" THEN <<>>
  ELSE <<"[DEBUG] Tool execution error: " \o ErrorToString(e)>>

\* the line each case prints after destructuring its arguments
CaseLog(v, name, args) ==
  LET q == "query=\"" \o ToStr(Prop(args, "query")) \o "\"" IN
  CASE v = "legacy" -> <<>>
    [] name = "harmonic_search_company_by_domain" ->
         <<"[DEBUG] Searching company by domain: " \o ToStr(Prop(args, "domain"))>>
    [] name = "harmonic_get_company" ->
         <<"[DEBUG] Getting company: domain=\"" \o ToStr(Prop(args, "domain")) \o "\"">>
    [] name \in {"harmonic_search_companies", "harmonic_search_people"} ->
         <<"[DEBUG] Searching "
             \o (IF name = "harmonic_search_people" THEN "people" ELSE "companies")
             \o ": " \o q
             \o (IF v = "main"
                   THEN ", size=" \o ToStr(PropOr(args, "size", Num(DefaultSize)))
                   ELSE ", limit=" \o ToStr(PropOr(args, "limit", Num(DefaultLimit))))>>
    [] name = "harmonic_get_saved_search_results" ->
         <<"[DEBUG] Getting saved search results: id=" \o ToStr(Prop(args, "search_id"))>>
    [] name = "harmonic_get_company_employees" ->
         <<"[DEBUG] Getting company employees: id=" \o ToStr(Prop(args, "company_id"))>>
    [] name = "harmonic_get_person" ->
         <<"[DEBUG] Getting person: id=\"" \o ToStr(Prop(args, "person_id")) \o "\"">>
    [] OTHER -> <<>>

\* what the handler writes from its entry to its first await, return or throw,
\* `step` being what it did
CallLog(v, client, name, args, step) ==
  EntryLog(v, client, name)
    \o (CASE name \notin SwitchCases(v) -> <<>>
          [] name = "harmonic_set_api_key" ->
               IF ~args.present THEN <<>>
               ELSE ConstructorLog(v, Prop(args, "api_key"))
                      \o (IF step.kind = "return" /\ v # "legacy"
                            THEN <<"[DEBUG] API key has been set globally">>
                            ELSE <<>>)
          [] name = "harmonic_test_connection" ->
               IF step.kind # "await" THEN <<>>
               ELSE <<"[DEBUG] Testing connection...",
                      "[DEBUG] Testing endpoint: " \o testEndpoints[1]>>
                      \o MakeRequestLog(v, step.req)
          [] OTHER ->
               IF step.kind = "await"
                 THEN CaseLog(v, name, args) \o MakeRequestLog(v, step.req)
               ELSE IF v = "state" /\ ~client.set
                 THEN <<"[DEBUG] No API key set when calling "
                          \o Sub(name, 10, Len(name))>>
               ELSE <<>>)
    \o (IF step.kind = "throw" THEN CatchLog(v, step.error) ELSE <<>>)

\* what the handler writes when its fetch has settled, up to its next await,
\* return or throw
ResumeLog(v, inv, answer, step) ==
  SettleLog(v, answer)
    \o (IF step.kind = "await"
          THEN <<"[DEBUG] Testing endpoint: " \o testEndpoints[inv.idx + 1]>>
                 \o MakeRequestLog(v, step.req)
          ELSE <<>>)
    \o (IF step.kind = "throw" THEN CatchLog(v, step.error) ELSE <<>>)

(***************************************************************************)
(* Inputs: the requests a host sends and the answers the upstream gives.   *)
(***************************************************************************)
K1 == "k1_0123456789"
K2 == "k2_abcdefghij"

AllNames ==
  Catalog("main") \cup Catalog("state") \cup Catalog("legacy")
    \cup {"harmonic_delete_everything"}

EmptyBag == Bag(<<>>)

\* the argument bags a host may send with each tool: no bag, an empty one,
\* and bags with the required argument, the optional ones, an empty cursor
ArgBags(name) ==
  {NoArgs, EmptyBag} \cup
  CASE name = "harmonic_set_api_key" ->
         {Bag("api_key" :> k) : k \in {Str(K1), Str(K2), Num(7)}}
    [] name \in {"harmonic_search_companies", "harmonic_search_people"} ->
         {Bag("query" :> Str("acme")),
          Bag("query" :> Str("acme") @@ "cursor" :> Str("")),
          Bag("query" :> Str("a&b c") @@ "size" :> Num(5) @@ "limit" :> Num(5)
                @@ "cursor" :> Str("c/1=")),
          Bag("query" :> Str("acme") @@ "limit" :> Str("5&q=x"))}
    [] name \in {"harmonic_search_company_by_domain", "harmonic_get_company"} ->
         {Bag("domain" :> Str("harmonic.ai"))}
    [] name = "harmonic_get_saved_search_results" ->
         {Bag("search_id" :> Str("42")),
          Bag("search_id" :> Str("a/b?x=1#f") @@ "size" :> Num(5)
                @@ "cursor" :> Str("c/1=")),
          Bag("search_id" :> Str("42") @@ "cursor" :> Str(""))}
    [] name = "harmonic_get_company_employees" ->
         {Bag("company_id" :> Str("42")),
          Bag("company_id" :> Str("a/b?x=1#f") @@ "size" :> Num(5)
                @@ "cursor" :> Str("c/1=")),
          Bag("company_id" :> Str("42") @@ "cursor" :> Str(""))}
    [] name = "harmonic_get_person" ->
         {Bag("person_id" :> Str("42")), Bag("person_id" :> Str("a/b?x=1#f"))}
    [] OTHER -> {Bag("query" :> Str("acme"))}

\* one well-formed bag for each tool
GoodBag(name) ==
  CASE name \in {"harmonic_search_companies", "harmonic_search_people"} ->
         Bag("query" :> Str("acme"))
    [] name \in {"harmonic_search_company_by_domain", "harmonic_get_company"} ->
         Bag("domain" :> Str("harmonic.ai"))
    [] name = "harmonic_get_saved_search_results" -> Bag("search_id" :> Str("42"))
    [] name = "harmonic_get_company_employees" -> Bag("company_id" :> Str("42"))
    [] name = "harmonic_get_person" -> Bag("person_id" :> Str("42"))
    [] OTHER -> EmptyBag

BodyTexts ==
  {"[]",
   "[1, 2,\n 3]",
   "{\"count\":2,\"results\":[{\"name\":\"Acme \\\"A\\\"\"},{\"name\":\"B\"}],\"next\":null}",
   "<html>"}

UpstreamAnswers ==
  {HttpResponse(200, t) : t \in BodyTexts}
    \cup {HttpResponse(st, "denied") : st \in {401, 403, 500}}
    \cup {FetchRejects("fetch failed")}

(***************************************************************************)
(* A run exercises one dimension of the input at a time: what the host     *)
(* puts in the argument bags, which keys it sets, what the upstream        *)
(* answers, or how the probe's paths fare.                                 *)
(***************************************************************************)
Workloads == {"arguments", "credentials", "upstream", "probe", "signal"}

HostBags(w, v, name) ==
  CASE name = "harmonic_set_api_key" ->
         (CASE w = "credentials" -> ArgBags(name)
            [] OTHER -> {Bag("api_key" :> Str(K1))})
    [] w = "probe" ->
         IF name = "harmonic_test_connection" THEN {EmptyBag} ELSE {}
    [] w = "signal" ->
         IF name = "harmonic_search_companies" THEN {GoodBag(name)} ELSE {}
    [] name = "harmonic_test_connection" ->
         IF w = "arguments" THEN {NoArgs, EmptyBag} ELSE {EmptyBag}
    [] name \notin Catalog(v) -> {NoArgs, Bag("query" :> Str("acme"))}
    [] w = "arguments" -> ArgBags(name)
    [] w = "credentials" /\ name = "harmonic_get_saved_search_results" ->
         {GoodBag(name), Bag("search_id" :> Str("a/b?x=1#f"))}
    [] OTHER -> {GoodBag(name)}

UpstreamFor(w, inv) ==
  CASE w = "probe" -> ProbeAnswers(inv.idx)
    [] w = "upstream" /\ inv.name # "harmonic_test_connection" -> UpstreamAnswers
    [] w = "credentials" /\ inv.name # "harmonic_test_connection" ->
         {HttpResponse(200, "[]"), HttpResponse(401, "denied")}
    [] OTHER -> {HttpResponse(200, "[]")}

NoAnswer == [kind |-> "none", status |-> 0, text |-> ""]

(***************************************************************************)
(* The state.                                                              *)
(***************************************************************************)
\* how many handlers may be suspended on a fetch at once
MaxInflight == 1

VARIABLES
  variant,              \* which server is running
  workload,             \* which inputs the run exercises
  globalHarmonicClient, \* the credential slot
  inflight,             \* the handlers suspended on their fetch
  response,             \* the answer being written to the host
  lastSet,              \* history: the keys that harmonic_set_api_key calls stored
  stderr,               \* the diagnostic lines the last turn wrote
  process               \* the process: running, in its SIGINT handler, or gone

vars ==
  <<variant, workload, globalHarmonicClient, inflight, response, lastSet, stderr,
    process>>

Slots == 1..MaxInflight

\* the history of successful harmonic_set_api_key calls: whether there was
\* one, the key the latest one was given, whether it replaced another key
NeverSet == [ok |-> FALSE, key |-> Undefined, replaced |-> FALSE]
keySetOk == lastSet.ok

Idle ==
  [busy |-> FALSE, name |-> "", args |-> NoArgs, req |-> NoReq, calls |-> 0,
   idx |-> 0, results |-> <<>>, hadKey |-> FALSE, wasSet |-> FALSE]

NoResponse ==
  [kind |-> "none", name |-> "", args |-> NoArgs, content |-> <<>>, code |-> "",
   message |-> "", tools |-> <<>>, calls |-> 0, hadKey |-> FALSE, wasSet |-> FALSE,
   answer |-> NoAnswer, thrown |-> NoError]

\* the handler's outcome as the host receives it; a throw passes the catch
Completed(v, step, name, args, calls, hadKey, wasSet, answer) ==
  [kind |-> IF step.kind = "return" THEN "result" ELSE "error",
   name |-> name, args |-> args, content |-> step.content,
   code |-> IF step.kind = "return" THEN "" ELSE CatchWrap(v, step.error).code,
   message |-> IF step.kind = "return" THEN "" ELSE CatchWrap(v, step.error).message,
   tools |-> <<>>, calls |-> calls, hadKey |-> hadKey, wasSet |-> wasSet,
   answer |-> answer,
   thrown |-> IF step.kind = "return" THEN NoError ELSE step.error]

Init ==
  /\ variant \in Variants
  /\ workload \in Workloads
  /\ globalHarmonicClient = NoClient
  /\ inflight = [i \in Slots |-> Idle]
  /\ response = NoResponse
  /\ lastSet = NeverSet
  /\ stderr = <<>>
  /\ process = "running"

\* process.exit was called, or the runtime ended the process
Exited == {"exit0", "exit1"}

FreeSlots == {i \in Slots : ~inflight[i].busy}

\* the host calls a tool: the handler runs to its return, throw or first fetch
CallTool(name, args) ==
  /\ process = "running"
  /\ response.kind = "none"
  /\ \E step \in {Switch(variant, globalHarmonicClient, name, args)} :
       /\ IF step.kind = "await"
            THEN /\ FreeSlots # {}
                 /\ LET i == CHOOSE x \in FreeSlots : \A y \in FreeSlots : x <= y IN
                    inflight' =
                      [inflight EXCEPT ![i] =
                         [busy |-> TRUE, name |-> name, args |-> args,
                          req |-> step.req, calls |-> 1, idx |-> 1, results |-> <<>>,
                          hadKey |-> keySetOk, wasSet |-> globalHarmonicClient.set]]
                 /\ response' = NoResponse
            ELSE /\ inflight' = inflight
                 /\ response' =
                      Completed(variant, step, name, args, 0, keySetOk,
                                globalHarmonicClient.set, NoAnswer)
       /\ globalHarmonicClient' = step.client
       /\ stderr' = CallLog(variant, globalHarmonicClient, name, args, step)
       /\ lastSet' =
            IF name = "harmonic_set_api_key" /\ step.kind = "return"
              THEN [ok |-> TRUE, key |-> Prop(args, "api_key"),
                    replaced |-> lastSet.ok /\ lastSet.key # Prop(args, "api_key")]
              ELSE lastSet
       /\ UNCHANGED <<variant, workload, process>>

\* the handler of slot i from the moment the upstream answers its fetch
Resume(v, client, inv, answer) ==
  IF inv.name = "harmonic_test_connection"
    THEN ProbeResume(v, client, inv.idx, inv.results, SettleRequest(v, answer))
    ELSE ResourceResume(v, client, SettleRequest(v, answer))

\* the upstream answers the fetch of a suspended handler, which resumes
FetchSettles(i, answer) ==
  /\ process \notin Exited
  /\ response.kind = "none"
  /\ inflight[i].busy
  /\ \E step \in {Resume(variant, globalHarmonicClient, inflight[i], answer)} :
       /\ stderr' = ResumeLog(variant, inflight[i], answer, step)
       /\ IF step.kind = "await"
            THEN /\ inflight' =
                      [inflight EXCEPT ![i] =
                         [@ EXCEPT !.req = step.req, !.calls = @ + 1,
                                   !.idx = @ + 1, !.results = step.results]]
                 /\ response' = response
            ELSE /\ inflight' = [inflight EXCEPT ![i] = Idle]
                 /\ response' =
                      Completed(variant, step, inflight[i].name, inflight[i].args,
                                inflight[i].calls, inflight[i].hadKey,
                                inflight[i].wasSet, answer)
  /\ UNCHANGED <<variant, workload, globalHarmonicClient, lastSet, process>>

\* a handler that would advertise the data tools only once a key is stored
ListToolsRequest_Gated ==
  /\ process = "running"
  /\ response.kind = "none"
  /\ response' = [NoResponse EXCEPT
                    !.kind = "tools",
                    !.tools = IF globalHarmonicClient.set THEN ListTools(variant)
                              ELSE SubSeq(ListTools(variant), 1, 1)]
  /\ stderr' = <<>>
  /\ UNCHANGED <<variant, workload, globalHarmonicClient, inflight, lastSet, process>>

\* the host lists the tools
ListToolsRequest ==
  /\ process = "running"
  /\ response.kind = "none"
  /\ response' = [NoResponse EXCEPT !.kind = "tools", !.tools = ListTools(variant)]
  /\ stderr' = <<>>
  /\ UNCHANGED <<variant, workload, globalHarmonicClient, inflight, lastSet, process>>

\* the transport writes the answer out, in the turn in which the handler
\* settled and before any other handler runs
Deliver ==
  /\ process \notin Exited
  /\ response.kind # "none"
  /\ response' = NoResponse
  /\ stderr' = <<>>
  /\ UNCHANGED <<variant, workload, globalHarmonicClient, inflight, lastSet, process>>

(***************************************************************************)
(* setupErrorHandling: the SIGINT listener is                              *)
(*   async () => { await this.server.close(); process.exit(0); }           *)
(* The listener calls close and suspends; when close resolves its          *)
(* continuation calls process.exit(0); when close rejects the listener     *)
(* ends without reaching process.exit, and what becomes of the unhandled   *)
(* rejection is the runtime's choice: the process goes on, or it is ended  *)
(* with code 1.  Closing the transport detaches it from stdin, so no       *)
(* request arrives once close was called.                                  *)
(***************************************************************************)
\* a listener that would call process.exit(0) without awaiting the close
Sigint_ExitsAtOnce ==
  /\ workload = "signal"
  /\ process \in {"running", "rejected"}
  /\ process' = "exit0"
  /\ UNCHANGED <<variant, workload, globalHarmonicClient, inflight, response,
                 lastSet, stderr>>

\* the signal arrives: the listener calls this.server.close() and awaits it
Sigint ==
  /\ workload = "signal"
  /\ process \in {"running", "rejected"}
  /\ process' = "closing"
  /\ UNCHANGED <<variant, workload, globalHarmonicClient, inflight, response,
                 lastSet, stderr>>

\* the promise of this.server.close() settles
CloseSettles(ok) ==
  /\ process = "closing"
  /\ process' \in (IF ok THEN {"closed"} ELSE {"rejected", "exit1"})
  /\ UNCHANGED <<variant, workload, globalHarmonicClient, inflight, response,
                 lastSet, stderr>>

\* the listener's continuation: process.exit(0)
ProcessExit ==
  /\ process = "closed"
  /\ process' = "exit0"
  /\ UNCHANGED <<variant, workload, globalHarmonicClient, inflight, response,
                 lastSet, stderr>>

Next ==
  \/ \E name \in AllNames : \E args \in HostBags(workload, variant, name) :
        CallTool(name, args)
  \/ \E i \in Slots : \E answer \in UpstreamFor(workload, inflight[i]) :
        FetchSettles(i, answer)
  \/ ListToolsRequest
  \/ Deliver
  \/ Sigint
  \/ \E ok \in BOOLEAN : CloseSettles(ok)
  \/ ProcessExit

Spec == Init /\ [][Next]_vars

\* What the server's own scheduling guarantees: an answer that is ready is
\* written out, and the continuation of an await whose promise resolved is
\* run.  Nothing makes the host call or the upstream answer: fetch is
\* called with method and headers only, and the handlers set no timer.
FairSpec == Spec /\ WF_vars(Deliver) /\ WF_vars(ProcessExit)

(***************************************************************************)
(* Reading a request the way its receiver does: the URL's query is what    *)
(* lies between the first "?" and the first "#", a sequence of name=value  *)
(* pairs, form-decoded.                                                    *)
(***************************************************************************)
\* the position of the first occurrence of character c in s from i on, or 0
IndexFrom(s, c, i) ==
  LET at == {j \in i..Len(s) : Ch(s, j) = c} IN
  IF at = {} THEN 0 ELSE CHOOSE j \in at : \A k \in at : j <= k

\* where sub occurs in s, and whether it does
Occurrences(s, sub) == {i \in 1..Len(s) : Sub(s, i, i + Len(sub) - 1) = sub}

Contains(s, sub) == sub = "" \/ Occurrences(s, sub) # {}

EncodedChars ==
  {" ", "!", "\"", "#", "$", "%", "&", "'", "(", ")", "*", "+", ",", "-", ".",
   "/", ":", ";", "<", "=", ">", "?", "@", "[", "\\", "]", "^", "_", "{", "|",
   "}", "~"}

RECURSIVE FormDecodeFrom(_, _)
FormDecodeFrom(s, i) ==
  IF i > Len(s) THEN ""
  ELSE CASE Ch(s, i) = "+" -> " " \o FormDecodeFrom(s, i + 1)
         [] Ch(s, i) = "%" /\ \E c \in EncodedChars : PctHex(c) = Sub(s, i, i + 2) ->
              (CHOOSE c \in EncodedChars : PctHex(c) = Sub(s, i, i + 2))
                \o FormDecodeFrom(s, i + 3)
         [] OTHER -> Ch(s, i) \o FormDecodeFrom(s, i + 1)
FormDecode(s) == FormDecodeFrom(s, 1)

UrlWithoutFragment(url) ==
  IF IndexFrom(url, "#", 1) = 0 THEN url
  ELSE Sub(url, 1, IndexFrom(url, "#", 1) - 1)

\* the query string of a URL, "" when it has none
UrlQuery(url) ==
  LET u == UrlWithoutFragment(url)
      q == IndexFrom(u, "?", 1)
  IN IF q = 0 THEN "" ELSE Sub(u, q + 1, Len(u))

\* the path of a URL, from the host on
UrlPath(url) ==
  LET u == UrlWithoutFragment(url)
      q == IndexFrom(u, "?", 1)
  IN IF q = 0 THEN u ELSE Sub(u, 1, q - 1)

\* the <<name, value>> pairs of a query string
RECURSIVE QueryPairs(_)
QueryPairs(q) ==
  IF q = "" THEN <<>>
  ELSE LET amp == IndexFrom(q, "&", 1)
           part == IF amp = 0 THEN q ELSE Sub(q, 1, amp - 1)
           rest == IF amp = 0 THEN "" ELSE Sub(q, amp + 1, Len(q))
           eq == IndexFrom(part, "=", 1)
           pair == IF eq = 0 THEN <<FormDecode(part), "">>
                   ELSE <<FormDecode(Sub(part, 1, eq - 1)),
                          FormDecode(Sub(part, eq + 1, Len(part)))>>
       IN IF part = "" THEN QueryPairs(rest) ELSE <<pair>> \o QueryPairs(rest)

\* the values a request's URL gives to query parameter `name`
QueryValues(url, name) ==
  LET pairs == QueryPairs(UrlQuery(url)) IN
  {pairs[i][2] : i \in {j \in 1..Len(pairs) : pairs[j][1] = name}}

\* the values a request gives to header `name`
HeaderValues(req, name) ==
  {req.headers[i][2] : i \in {j \in 1..Len(req.headers) : req.headers[j][1] = name}}

\* the credentials a request carries, by whichever scheme
CarriedKeys(req) ==
  QueryValues(req.url, "apikey") \cup HeaderValues(req, "apikey")
    \cup {Sub(h, 8, Len(h)) : h \in {x \in HeaderValues(req, "Authorization") :
                                       Sub(x, 1, 7) = "Bearer "}}

\* the handlers that finished in the state: an answer is being written
Answered == response.kind \in {"result", "error"}

NotSetMessage == "Harmonic API key not set. Please use harmonic_set_api_key first."

(***************************************************************************)
(* C1: while no harmonic_set_api_key call has succeeded, a call of any     *)
(* other catalogued tool, with any argument bag, ends in the "API key not  *)
(* set" error (InvalidRequest) and sends nothing: its answer counts zero   *)
(* fetches and no handler that was called without a key is suspended on    *)
(* one.                                                                    *)
(***************************************************************************)
C1_NoKeyNoCall ==
  /\ (Answered /\ ~response.hadKey
        /\ response.name \in Catalog(variant) \ {"harmonic_set_api_key"})
       => /\ response.kind = "error"
          /\ response.code = "InvalidRequest"
          /\ response.message = NotSetMessage
          /\ response.calls = 0
  /\ \A i \in Slots : inflight[i].busy => inflight[i].hadKey

C1_Witness ==
  /\ variant = "state"
  /\ response.kind = "error"
  /\ response.name = "harmonic_test_connection"
  /\ ~response.hadKey
  /\ response.message = NotSetMessage

\* a request is sent in this step by the handler in slot i
Issues(i) ==
  /\ inflight'[i].busy
  /\ ~inflight[i].busy \/ inflight'[i].calls # inflight[i].calls

(***************************************************************************)
(* C2: once harmonic_set_api_key(k1) and then harmonic_set_api_key(k2),    *)
(* k1 # k2, have both succeeded, every request sent afterwards carries k2  *)
(* as its credential and nothing else (last write wins).                   *)
(***************************************************************************)
C2_LastKeyCarried ==
  [][\A i \in Slots :
       (Issues(i) /\ lastSet.replaced)
         => CarriedKeys(inflight'[i].req) = {ToStr(lastSet.key)}]_vars

(***************************************************************************)
(* C3: the phase is monotone.  No step empties the credential slot once it *)
(* is filled, and once a harmonic_set_api_key call has succeeded no call   *)
(* of a catalogued tool is answered with the "API key not set" error.      *)
(***************************************************************************)
C3_PhaseMonotone ==
  [][/\ globalHarmonicClient.set => globalHarmonicClient'.set
     /\ (lastSet.ok /\ response'.kind = "error"
           /\ response'.name \in Catalog(variant))
          => response'.message # NotSetMessage]_vars

\* a harmonic_set_api_key call has just failed although a key was set before
C3_Witness ==
  /\ response.kind = "error"
  /\ response.name = "harmonic_set_api_key"
  /\ response.hadKey
  /\ globalHarmonicClient.set

\* an error of the validation kind: not the catch-all, not the unknown-tool
\* error and not the missing-key precondition
ValidationError ==
  /\ response.kind = "error"
  /\ response.code \notin {"InternalError", "MethodNotFound"}
  /\ response.message # NotSetMessage

(***************************************************************************)
(* C4: a harmonic_set_api_key call without an argument bag, without        *)
(* api_key or with an api_key that is not a string is answered with a      *)
(* validation error: never the confirmation, never InternalError.          *)
(***************************************************************************)
C4_KeyValidated ==
  (Answered /\ response.name = "harmonic_set_api_key"
     /\ (~response.args.present \/ Prop(response.args, "api_key").t # "string"))
    => ValidationError

\* a catalogued tool was called without one of its required arguments
OmitsRequired(name, args) ==
  \E p \in Range(RequiredOf(name)) : ~args.present \/ Prop(args, p) = Undefined

(***************************************************************************)
(* C5: with a key set, a call of a catalogued tool that omits a required   *)
(* argument is answered with a validation error and sends no request.      *)
(***************************************************************************)
C5_RequiredValidated ==
  /\ \A i \in Slots :
       (inflight[i].busy /\ inflight[i].wasSet
          /\ inflight[i].name \in Catalog(variant))
         => ~OmitsRequired(inflight[i].name, inflight[i].args)
  /\ (Answered /\ response.wasSet /\ response.name \in Catalog(variant)
        /\ response.name # "harmonic_set_api_key"
        /\ OmitsRequired(response.name, response.args))
       => (ValidationError /\ response.calls = 0)

(***************************************************************************)
(* C6: a call whose name is not in the catalog, with or without a key set  *)
(* and with any argument bag, is answered with the unknown-tool error      *)
(* naming it; the step sends no request and leaves the credential slot as  *)
(* it was.                                                                 *)
(***************************************************************************)
C6_UnknownTool ==
  [][(response'.kind \in {"result", "error"}
        /\ response'.name \notin Catalog(variant))
       => /\ response'.kind = "error"
          /\ response'.code = "MethodNotFound"
          /\ Contains(response'.message, response'.name)
          /\ response'.calls = 0
          /\ inflight' = inflight
          /\ globalHarmonicClient' = globalHarmonicClient]_vars

C6_Witness ==
  /\ response.kind = "error"
  /\ response.name = "harmonic_delete_everything"
  /\ response.code = "MethodNotFound"
  /\ response.wasSet
  /\ response.args.present

ListStyleTools ==
  {"harmonic_search_companies", "harmonic_search_people",
   "harmonic_get_saved_search_results", "harmonic_get_company_employees"}

(***************************************************************************)
(* C7: in harmonic-server.js, the request of a list-style tool has a       *)
(* cursor parameter exactly when the call supplied a cursor string, the    *)
(* empty string included, and its value is then that string.               *)
(***************************************************************************)
C7_CursorVerbatim ==
  \A i \in Slots :
    (variant = "main" /\ inflight[i].busy /\ inflight[i].name \in ListStyleTools)
      => LET cursor == Prop(inflight[i].args, "cursor")
             sent == QueryValues(inflight[i].req.url, "cursor")
         IN IF cursor.t = "string" THEN sent = {cursor.s} ELSE sent = {}

\* the message with every occurrence of the status number blanked
RECURSIVE Blank(_, _)
Blank(s, number) ==
  LET at == Occurrences(s, number) IN
  IF at = {} THEN s
  ELSE LET i == CHOOSE j \in at : \A k \in at : j <= k IN
       Sub(s, 1, i - 1) \o "###" \o Blank(Sub(s, i + Len(number), Len(s)), number)

\* what the host is told when the same call's fetch is answered with `answer`
SurfacedMessage(v, answer) ==
  CatchWrap(v, RewrapError(v, InnerError(v, answer))).message

(***************************************************************************)
(* C8: in every variant, the error of a call answered with status 401 and  *)
(* the error of the same call answered with status 403 and the same body   *)
(* differ in more than the status number.                                  *)
(***************************************************************************)
C8_Classified ==
  (response.kind = "error" /\ response.wasSet
     /\ response.name \in ResourceTools(variant)
     /\ response.answer.kind = "response" /\ response.answer.status = 401)
    => Blank(response.message, "401")
         # Blank(SurfacedMessage(variant, HttpResponse(403, response.answer.text)),
                 "403")

\* JSON.stringify(JSON.parse(text), null, 2) of the bodies the upstream sends,
\* written out by hand
PrettyPrinted(text) ==
  CASE text = "[]" -> "[]"
    [] text = "[1, 2,\n 3]" -> "[\n  1,\n  2,\n  3\n]"
    [] OTHER ->
         "{\n  \"count\": 2,\n  \"results\": [\n    {\n      \"name\": \"Acme \\\"A\\\"\"\n    },\n    {\n      \"name\": \"B\"\n    }\n  ],\n  \"next\": null\n}"

(***************************************************************************)
(* C9: the result of a successful resource tool call is exactly one        *)
(* content block, of type text, whose text is the 2-space pretty-printed   *)
(* JSON of the value parsed from the upstream body.                        *)
(***************************************************************************)
C9_PrettyResult ==
  (response.kind = "result" /\ response.name \in ResourceTools(variant))
    => /\ Len(response.content) = 1
       /\ response.content[1].type = "text"
       /\ response.content[1].text = PrettyPrinted(response.answer.text)

C9_Witness ==
  /\ response.kind = "result"
  /\ response.name \in ResourceTools(variant)
  /\ response.wasSet
  /\ Len(response.answer.text) > 20
  /\ Len(response.content[1].text) > Len(response.answer.text)

(***************************************************************************)
(* C10: a resource tool call made with a key set and an argument bag sends *)
(* exactly one request whatever the upstream answers: a failed request is  *)
(* not sent again.                                                         *)
(***************************************************************************)
C10_ExactlyOneCall ==
  /\ \A i \in Slots :
       (inflight[i].busy /\ inflight[i].name \in ResourceTools(variant))
         => inflight[i].calls = 1
  /\ (Answered /\ response.wasSet /\ response.args.present
        /\ response.name \in ResourceTools(variant))
       => response.calls = 1

C10_Witness ==
  /\ response.kind = "error"
  /\ response.name \in ResourceTools(variant)
  /\ response.wasSet
  /\ response.answer.kind = "reject"
  /\ response.calls = 1

\* the upstream's answers that are failures of the HTTP exchange itself
HttpFailures == {a \in UpstreamAnswers : a.kind = "response" /\ ~ResponseOk(a)}
TransportFailures == {a \in UpstreamAnswers : a.kind = "reject"}

(***************************************************************************)
(* C11: the failure reported for a non-2xx answer carries the status code  *)
(* and the raw body text; the failure reported for a rejected fetch        *)
(* carries the cause's message; and no failure of one kind is reported     *)
(* with the words of a failure of the other kind.                          *)
(***************************************************************************)
C11_FailureCarries ==
  (response.kind = "error" /\ response.name \in ResourceTools(variant)
     /\ response.calls = 1)
    => /\ response.answer \in HttpFailures
            => /\ Contains(response.message, ToString(response.answer.status))
               /\ Contains(response.message, response.answer.text)
               /\ \A a \in TransportFailures :
                    response.message # SurfacedMessage(variant, a)
       /\ response.answer \in TransportFailures
            => /\ Contains(response.message, response.answer.text)
               /\ \A a \in HttpFailures :
                    response.message # SurfacedMessage(variant, a)

C11_Witness ==
  /\ response.kind = "error"
  /\ response.name \in ResourceTools(variant)
  /\ response.answer \in HttpFailures
  /\ response.answer.status = 500
  /\ Contains(response.message, "500 - denied")

\* the codes of the protocol's typed errors that the server uses
ErrorCodes == {"InvalidRequest", "MethodNotFound", "InternalError"}

(***************************************************************************)
(* C12: every failure that leaves the call-tool handler is an McpError     *)
(* with a code; an exception thrown while dispatching that is not an       *)
(* McpError leaves as InternalError, with its message inside the new       *)
(* message.                                                                *)
(***************************************************************************)
C12_TypedFailures ==
  response.kind = "error"
    => /\ response.code \in ErrorCodes
       /\ response.thrown.type # "McpError"
            => /\ response.code = "InternalError"
               /\ Contains(response.message, response.thrown.message)

\* the destructuring of a missing arguments object was wrapped
C12_Witness ==
  /\ response.kind = "error"
  /\ ~response.args.present
  /\ response.thrown.name = "TypeError"
  /\ response.code = "InternalError"

\* the code the handler's catch gives to an error it cannot classify
CatchAllCode(v) == CatchWrap(v, JsError("TypeError", "unclassified")).code

(***************************************************************************)
(* C13: when the client's request fails during a call made with a key set, *)
(* the error the host receives carries the client's message and has a code *)
(* of its own, different from the code of the catch-all for unclassified   *)
(* internal errors.                                                        *)
(***************************************************************************)
C13_ExecutionClassified ==
  (response.kind = "error" /\ response.wasSet /\ response.calls = 1
     /\ response.name \in ResourceTools(variant))
    => /\ Contains(response.message,
                   SettleRequest(variant, response.answer).error.message)
       /\ response.code # CatchAllCode(variant)

(***************************************************************************)
(* C14: the code of the missing-credential error is the code of no other   *)
(* failure: an error with that code is the "API key not set" error, and    *)
(* every other error (unknown tool, argument errors, upstream and          *)
(* transport failures, internal errors) has another code.                  *)
(***************************************************************************)
C14_CredentialCodeUnique ==
  response.kind = "error"
    => (response.code = NotSetError.code <=> response.message = NotSetMessage)

\* an unknown tool called before any key was set: another failure, another code
C14_Witness ==
  /\ response.kind = "error"
  /\ ~response.wasSet
  /\ response.name \notin Catalog(variant)
  /\ response.code = "MethodNotFound"

(***************************************************************************)
(* C15: no diagnostic line contains a credential in full: of a key longer  *)
(* than 8 characters at most the first 8 appear, also in the lines that    *)
(* print the request's URL or headers.                                     *)
(***************************************************************************)
C15_KeyNeverLogged ==
  \A i \in 1..Len(stderr) : \A k \in {K1, K2} : ~Contains(stderr[i], k)

(***************************************************************************)
(* C16: only harmonic_set_api_key writes the credential slot.  A step that *)
(* changes the slot is a harmonic_set_api_key call returning its           *)
(* confirmation; every other call, whatever its outcome, the resumption of *)
(* a suspended handler and the list-tools request leave the slot as it     *)
(* was.  And harmonic_set_api_key sends no request: it answers in the step *)
(* that called it, with zero fetches, and is never suspended on one.       *)
(***************************************************************************)
C16_SlotFrame ==
  [][/\ globalHarmonicClient' # globalHarmonicClient
          => /\ response'.name = "harmonic_set_api_key"
             /\ response'.kind = "result"
     /\ (response'.kind \in {"result", "error"}
           /\ response'.name = "harmonic_set_api_key")
          => /\ response'.calls = 0
             /\ inflight' = inflight
     /\ \A i \in Slots :
          inflight'[i].busy => inflight'[i].name # "harmonic_set_api_key"]_vars

\* another tool has succeeded and the key set before it is still the stored one
C16_Witness ==
  /\ response.kind = "result"
  /\ response.name \in ResourceTools(variant)
  /\ lastSet.ok
  /\ globalHarmonicClient = Client(lastSet.key)

(***************************************************************************)
(* C17: with calls interleaved, a request carries the credential that was  *)
(* stored when it was started: the request a step starts carries the key   *)
(* the slot holds in that step, and a request already in flight is not     *)
(* changed by a later step, a replacement of the key included.             *)
(***************************************************************************)
C17_KeyAtStart ==
  [][\A i \in Slots :
       /\ Issues(i)
            => CarriedKeys(inflight'[i].req) = {ToStr(globalHarmonicClient.apiKey)}
       /\ (inflight[i].busy /\ inflight'[i].busy /\ ~Issues(i))
            => inflight'[i].req = inflight[i].req]_vars

\* a record of the probe's list for path `endpoint`: marked success with the
\* response, or failed with the error's message
IsProbeRecord(rec, endpoint) ==
  /\ rec.t = "object"
  /\ Len(rec.v) = 3
  /\ rec.v[1] = <<"endpoint", JStr(endpoint)>>
  /\ \/ rec.v[2] = <<"status", JStr("success")>> /\ rec.v[3][1] = "response"
     \/ /\ rec.v[2] = <<"status", JStr("failed")>>
        /\ rec.v[3][1] = "error"
        /\ rec.v[3][2].t = "string"
        /\ rec.v[3][2].v # ""

\* one record for each of the first n candidate paths, in their order
IsProbeList(list, n) ==
  /\ Len(list) = n
  /\ \A k \in 1..n : IsProbeRecord(list[k], testEndpoints[k])

ProbeHeading == "Connection test results:\n"

(***************************************************************************)
(* C18: in server-with-state.js, a harmonic_test_connection call made with *)
(* a key set never aborts on a failing path.  While it runs it has sent    *)
(* one request per path tried, to the candidate paths in order, and holds  *)
(* one record per path answered; it ends in a result, not an error, after  *)
(* exactly one request per candidate path, and the list in its text has    *)
(* one record per candidate path, in order, each marked success or failed. *)
(***************************************************************************)
C18_ProbeCompletes ==
  /\ \A i \in Slots :
       (variant = "state" /\ inflight[i].busy
          /\ inflight[i].name = "harmonic_test_connection")
         => /\ inflight[i].idx \in 1..Len(testEndpoints)
            /\ inflight[i].calls = inflight[i].idx
            /\ inflight[i].req.url
                 = HARMONIC_API_BASE(variant) \o testEndpoints[inflight[i].idx]
            /\ IsProbeList(inflight[i].results, inflight[i].idx - 1)
  /\ (variant = "state" /\ Answered /\ response.wasSet
        /\ response.name = "harmonic_test_connection")
       => /\ response.kind = "result"
          /\ response.calls = Len(testEndpoints)
          /\ Len(response.content) = 1
          /\ LET text == response.content[1].text
                 list == JsonParse(Sub(text, Len(ProbeHeading) + 1, Len(text)))
             IN /\ Sub(text, 1, Len(ProbeHeading)) = ProbeHeading
                /\ list.ok
                /\ list.val.t = "array"
                /\ IsProbeList(list.val.v, Len(testEndpoints))

\* the probe has ended in a result although its last path failed
C18_Witness ==
  /\ variant = "state"
  /\ response.kind = "result"
  /\ response.name = "harmonic_test_connection"
  /\ response.calls = Len(testEndpoints)
  /\ Contains(response.content[1].text, "Not Found")
  /\ response.answer = HttpResponse(404, "Not Found")

(***************************************************************************)
(* C19: every request is bounded by a timeout of the client, so a call     *)
(* that is waiting for the upstream is eventually answered, with a result  *)
(* or an error, even if the upstream never responds.                       *)
(***************************************************************************)
C19_EventuallyAnswered ==
  \A i \in Slots : inflight[i].busy ~> ~inflight[i].busy

(***************************************************************************)
(* C20: within a variant every request carries the credential by one       *)
(* scheme only.  harmonic-server.js sends it as the apikey query parameter,*)
(* equal to the stored key, and in no Authorization or apikey header;      *)
(* server-with-state.js sends it as the apikey header and in no query      *)
(* parameter.                                                              *)
(***************************************************************************)
C20_OneScheme ==
  [][\A i \in Slots :
       Issues(i)
         => LET req == inflight'[i].req
                key == ToStr(globalHarmonicClient.apiKey)
            IN /\ variant = "main"
                    => /\ QueryValues(req.url, "apikey") = {key}
                       /\ HeaderValues(req, "apikey") = {}
                       /\ HeaderValues(req, "Authorization") = {}
               /\ variant = "state"
                    => /\ HeaderValues(req, "apikey") = {key}
                       /\ QueryValues(req.url, "apikey") = {}
                       /\ HeaderValues(req, "Authorization") = {}]_vars

(***************************************************************************)
(* C21: in harmonic-server.js, an authenticated call of                    *)
(* harmonic_search_company_by_domain with a domain issues a POST to        *)
(* /companies whose request body is the JSON object                        *)
(* {website_domain: domain}.                                               *)
(***************************************************************************)
C21_DomainInBody ==
  \A i \in Slots :
    (/\ variant = "main"
     /\ inflight[i].busy
     /\ inflight[i].name = "harmonic_search_company_by_domain"
     /\ inflight[i].args.present
     /\ Prop(inflight[i].args, "domain").t = "string")
      => LET req == inflight[i].req IN
         /\ req.method = "POST"
         /\ UrlPath(req.url) = HARMONIC_API_BASE("main") \o "/companies"
         /\ req.body.t = "string"
         /\ JsonParse(req.body.s).ok
         /\ JsonParse(req.body.s).val
              = JObj(<< <<"website_domain",
                          JStr(Prop(inflight[i].args, "domain").s)>> >>)

(***************************************************************************)
(* C22: the request of a paginated tool carries the page size exactly      *)
(* once: the supplied value unchanged, or the default when none was        *)
(* supplied (size=50 for the four list tools of harmonic-server.js,        *)
(* limit=10 for the two search tools of server-with-state.js).             *)
(***************************************************************************)
PageSizeSent(i, param, default) ==
  LET given == Prop(inflight[i].args, param) IN
  QueryValues(inflight[i].req.url, param)
    = {IF given = Undefined THEN default ELSE ToStr(given)}

C22_PageSize ==
  \A i \in Slots :
    (inflight[i].busy /\ inflight[i].args.present)
      => /\ (variant = "main" /\ inflight[i].name \in ListStyleTools)
              => PageSizeSent(i, "size", "50")
         /\ (/\ variant = "state"
             /\ inflight[i].name \in {"harmonic_search_companies",
                                       "harmonic_search_people"})
              => PageSizeSent(i, "limit", "10")

(***************************************************************************)
(* C23: in harmonic-server.js every request has the method and the         *)
(* resource path of the tool that was called, with the identifier as the   *)
(* one segment the path template reserves for it, and it has not the       *)
(* method and path of any other tool.                                      *)
(***************************************************************************)
Route(name) ==
  CASE name = "harmonic_search_companies" ->
         [method |-> "GET", before |-> "/companies", id |-> FALSE, after |-> ""]
    [] name = "harmonic_search_people" ->
         [method |-> "GET", before |-> "/people", id |-> FALSE, after |-> ""]
    [] name = "harmonic_get_saved_search_results" ->
         [method |-> "GET", before |-> "/saved_searches:results/", id |-> TRUE,
          after |-> ""]
    [] name = "harmonic_get_company_employees" ->
         [method |-> "GET", before |-> "/companies/", id |-> TRUE,
          after |-> "/employees"]
    [] OTHER ->
         [method |-> "POST", before |-> "/companies", id |-> FALSE, after |-> ""]

\* the segment a path has in the identifier's place of a route, as a set:
\* empty when the path is not of that route
RouteSegments(route, path) ==
  LET head == HARMONIC_API_BASE("main") \o route.before
      n == Len(path) - Len(head) - Len(route.after)
      seg == Sub(path, Len(head) + 1, Len(head) + n)
  IN IF /\ n >= 0
        /\ Sub(path, 1, Len(head)) = head
        /\ Sub(path, Len(head) + n + 1, Len(path)) = route.after
        /\ IF route.id THEN n > 0 /\ ~Contains(seg, "/") ELSE n = 0
       THEN {seg}
       ELSE {}

C23_FixedRoute ==
  \A i \in Slots :
    (variant = "main" /\ inflight[i].busy /\ inflight[i].args.present)
      => LET req == inflight[i].req
             name == inflight[i].name
             path == UrlPath(req.url)
         IN /\ req.method = Route(name).method
            /\ \E seg \in RouteSegments(Route(name), path) :
                 Route(name).id
                   => FormDecode(seg) = ToStr(Prop(inflight[i].args, FirstProp(name)))
            /\ \A other \in ResourceTools("main") \ {name} :
                 \/ req.method # Route(other).method
                 \/ RouteSegments(Route(other), path) = {}

(***************************************************************************)
(* C24: listing the tools answers with the whole catalog of the running    *)
(* file, the same whether or not a key is stored and whatever calls came   *)
(* before or are in flight; the listing issues no request and leaves the   *)
(* credential slot and the calls in flight as they were.                   *)
(***************************************************************************)
C24_CatalogStable ==
  [][response'.kind = "tools"
       => /\ response'.tools = ListTools(variant)
          /\ Len(response'.tools) = Cardinality(SwitchCases(variant))
          /\ inflight' = inflight
          /\ globalHarmonicClient' = globalHarmonicClient
          /\ stderr' = <<>>]_vars

\* the catalog was listed with a key stored and a call in flight
C24_Witness ==
  /\ response.kind = "tools"
  /\ globalHarmonicClient.set
  /\ \E i \in Slots : inflight[i].busy

(***************************************************************************)
(* C25: on SIGINT the server closes first and exits after: the process     *)
(* exits with code 0 only from the state in which the close it requested   *)
(* has completed, never before a close was requested, and once the close   *)
(* has completed the exit with code 0 follows.                             *)
(***************************************************************************)
C25_CloseThenExit ==
  /\ [][(process' = "exit0" /\ process # "exit0") => process = "closed"]_vars
  /\ [][(process' = "closed" /\ process # "closed") => process = "closing"]_vars
  /\ [][process = "running" => process' \in {"running", "closing"}]_vars
  /\ (process = "closed") ~> (process = "exit0")

\* the process has exited with code 0 while a call was still in flight
C25_Witness ==
  /\ process = "exit0"
  /\ \E i \in Slots : inflight[i].busy

(***************************************************************************)
(* C26: in server-with-state.js, every request of one                      *)
(* harmonic_test_connection invocation carries the credential that its     *)
(* first request carried, whatever harmonic_set_api_key calls complete     *)
(* while the probe is suspended: each next request of the probe has the    *)
(* key of the request before it.                                           *)
(***************************************************************************)
C26_ProbeOneKey ==
  [][\A i \in Slots :
       (/\ variant = "state"
        /\ inflight[i].busy
        /\ inflight[i].name = "harmonic_test_connection"
        /\ inflight'[i].busy
        /\ inflight'[i].calls = inflight[i].calls + 1)
         => CarriedKeys(inflight'[i].req) = CarriedKeys(inflight[i].req)]_vars

(***************************************************************************)
(* C27: a harmonic_set_api_key call that ends in an error leaves the       *)
(* credential slot exactly as it was, unset or holding the key stored      *)
(* before; and whenever the slot changes, the call that changed it is a    *)
(* harmonic_set_api_key call answered with the success confirmation.       *)
(***************************************************************************)
C27_FailedSetKeepsSlot ==
  [][/\ (/\ response.kind = "none"
         /\ response'.kind = "error"
         /\ response'.name = "harmonic_set_api_key")
          => globalHarmonicClient' = globalHarmonicClient
     /\ globalHarmonicClient' # globalHarmonicClient
          => /\ response'.kind = "result"
             /\ response'.name = "harmonic_set_api_key"
             /\ response'.content = TextResult(SetKeyMessage(variant))
             /\ globalHarmonicClient' = Client(Prop(response'.args, "api_key"))]_vars

\* a call with a key that the constructor rejects has failed while another
\* key was stored, and that key is still the one in the slot
C27_Witness ==
  /\ response.kind = "error"
  /\ response.name = "harmonic_set_api_key"
  /\ response.args = Bag("api_key" :> Num(7))
  /\ lastSet.ok
  /\ globalHarmonicClient = Client(lastSet.key)

(***************************************************************************)
(* C28: in each file the catalog and the switch agree: the catalog names   *)
(* are pairwise distinct, the names list-tools returns are exactly the     *)
(* case labels, a call of a catalogued name is never answered with         *)
(* "Unknown tool", and a call of any other name always is.                 *)
(***************************************************************************)
C28_CatalogMatchesSwitch ==
  /\ \A a, b \in 1..Len(ToolNames(variant)) :
       a # b => ToolNames(variant)[a] # ToolNames(variant)[b]
  /\ {ListTools(variant)[a].name : a \in 1..Len(ListTools(variant))}
       = SwitchCases(variant)
  /\ response.kind = "tools"
       => {response.tools[a].name : a \in 1..Len(response.tools)}
            = SwitchCases(variant)
  /\ (response.kind \in {"result", "error"} /\ response.name \in Catalog(variant))
       => ~(response.kind = "error" /\ response.code = "MethodNotFound")
  /\ (response.kind \in {"result", "error"} /\ response.name \notin Catalog(variant))
       => /\ response.kind = "error"
          /\ response.code = "MethodNotFound"
          /\ response.message = "Unknown tool: " \o response.name

\* the tool that only server-with-state.js lists was called there and was
\* answered by its case
C28_Witness ==
  /\ variant = "state"
  /\ response.kind = "result"
  /\ response.name = "harmonic_test_connection"

(***************************************************************************)
(* C29: in harmonic-server.js, whatever the identifier given to            *)
(* harmonic_get_saved_search_results or harmonic_get_company_employees,    *)
(* the request's path is the tool's path with the identifier as one        *)
(* segment, and its query string has the size, the cursor if one was       *)
(* given, the apikey, and nothing else.                                    *)
(***************************************************************************)
C29_IdentifierOneSegment ==
  \A i \in Slots :
    (/\ variant = "main"
     /\ inflight[i].busy
     /\ inflight[i].args.present
     /\ inflight[i].name \in {"harmonic_get_saved_search_results",
                              "harmonic_get_company_employees"})
      => LET req == inflight[i].req
             name == inflight[i].name
             args == inflight[i].args
             cursor == Prop(args, "cursor")
             pairs == QueryPairs(UrlQuery(req.url))
         IN /\ \E seg \in RouteSegments(Route(name), UrlPath(req.url)) :
                 FormDecode(seg) = ToStr(Prop(args, FirstProp(name)))
            /\ QueryValues(req.url, "apikey") \in {{K1}, {K2}}
            /\ PageSizeSent(i, "size", "50")
            /\ QueryValues(req.url, "cursor")
                 = (IF Truthy(cursor) THEN {ToStr(cursor)} ELSE {})
            /\ {pairs[k][1] : k \in 1..Len(pairs)} \subseteq {"size", "cursor", "apikey"}

=============================================================================
